---- MODULE Spec2Model ----
(***************************************************************************)
(* A model of gol-cpu-bench-rs: the grid Buffer, the two cell kernels      *)
(* (checkerboard, Game of Life), the single-thread executor, the parallel  *)
(* executor with its worker pool and two queues, and the ping-pong         *)
(* iteration driver.                                                       *)
(***************************************************************************)
EXTENDS Integers, Sequences, FiniteSets, TLC

\* ------------------------------------------------------------------ bounds
MaxLen == 3          \* largest buffer length (width * height) of the engine runs
MaxThreads == 2      \* largest thread_count handed to ExecutorParallel::new
MaxSliceLen == 2     \* largest work_slice_len handed to ExecutorParallel::new
MaxIter == 2         \* largest iteration count handed to compute_iterations
MaxDepth == 2        \* largest depth (third dimension) of the buffers of the engine runs
MaxDim == 5          \* largest width and height of the buffers the accessors are probed on
MaxCoordSlack == 2   \* how far past the edges the probed coordinates reach
MaxCheckerWidth == 7 \* largest checkerboard width
MaxCheckerHeight == 3 \* largest checkerboard height
MaxGolCells == 9     \* largest cell count of the grids one Game of Life step is probed on
MaxGolGrid == 4      \* largest width and height of the grids the oscillator runs start from
MaxGolIter == 3      \* largest iteration count of the oscillator runs

\* ------------------------------------------------------------ value types
Alive == "Alive"
Dead == "Dead"
GolCell == {Alive, Dead}

\* Option<T>: None is the empty sequence, Some(v) the one-element sequence.
None == <<>>
Some(v) == <<v>>

Max(a, b) == IF a >= b THEN a ELSE b

\* ------------------------------------------------------------------ Buffer
\* A Buffer is [data |-> sequence of T, dims |-> <<width, height, depth>>].
\* Rust indexes from 0, TLA+ sequences from 1: data.get(i) reads data[i + 1].

from_value(length, value) ==
    [data |-> [k \in 1..length |-> value], dims |-> <<length, 1, 1>>]

from_value_2d(dimensions, value) ==
    [data |-> [k \in 1..(dimensions[1] * dimensions[2]) |-> value],
     dims |-> <<dimensions[1], dimensions[2], 1>>]

\* Variant: the depth is left out of the allocated length.
from_value_3d_NoDepth(dimensions, value) ==
    [data |-> [k \in 1..(dimensions[1] * dimensions[2]) |-> value],
     dims |-> dimensions]

from_value_3d(dimensions, value) ==
    [data |-> [k \in 1..(dimensions[1] * dimensions[2] * dimensions[3]) |-> value],
     dims |-> dimensions]

from_vec(vec) == [data |-> vec, dims |-> <<Len(vec), 1, 1>>]

len(buf) == Len(buf.data)

\* <[T]>::get
Get(data, index) == IF index >= 0 /\ index < Len(data) THEN Some(data[index + 1]) ELSE None

index_to_pos_2d(buf, index) == <<index % buf.dims[1], index \div buf.dims[1]>>

at_2d(buf, pos) == Get(buf.data, pos[1] + pos[2] * buf.dims[1])

\* Variant: only the negative side is checked, the upper side is left to the flat index.
at_2d_i32_NoUpperCheck(buf, pos) ==
    IF pos[1] < 0 \/ pos[2] < 0 THEN None
    ELSE Get(buf.data, pos[1] + pos[2] * buf.dims[1])

at_2d_i32(buf, pos) ==
    IF pos[1] < 0 \/ pos[1] >= buf.dims[1] THEN None
    ELSE IF pos[2] < 0 \/ pos[2] >= buf.dims[2] THEN None
    ELSE Get(buf.data, pos[1] + pos[2] * buf.dims[1])

\* ----------------------------------------------------------------- kernels
CheckerboardConf(a, b, w) == [color_a |-> a, color_b |-> b, width |-> w]

\* Variant: the row term of the key is forgotten.
Checkerboard_process_job_NoRow(buf, index, conf) ==
    IF index % 2 = 0 THEN conf.color_a ELSE conf.color_b

Checkerboard_process_job(buf, index, conf) ==
    IF (index + (index \div conf.width)) % 2 = 0 THEN conf.color_a ELSE conf.color_b

is_alive(cell) == cell = Alive

GolCell_from(b) == IF b THEN Alive ELSE Dead

NEIGHBOR_OFFSETS ==
    << <<-1, 1>>, <<0, 1>>, <<1, 1>>, <<1, 0>>, <<1, -1>>, <<0, -1>>, <<-1, -1>>, <<-1, 0>> >>

\* Variant: the neighbours are read through the flat index alone (Buffer::at_2d on
\* the signed sum), so a column past the edge lands in the adjacent row.
get_neighbor_count_FlatIndex(pos, buf) ==
    Cardinality({k \in 1..Len(NEIGHBOR_OFFSETS) :
        LET c == at_2d(buf, <<pos[1] + NEIGHBOR_OFFSETS[k][1],
                              pos[2] + NEIGHBOR_OFFSETS[k][2]>>)
        IN  c # None /\ is_alive(c[1])})

get_neighbor_count(pos, buf) ==
    Cardinality({k \in 1..Len(NEIGHBOR_OFFSETS) :
        LET c == at_2d_i32(buf, <<pos[1] + NEIGHBOR_OFFSETS[k][1],
                                  pos[2] + NEIGHBOR_OFFSETS[k][2]>>)
        IN  c # None /\ is_alive(c[1])})

\* Variant: a cell with 2 live neighbours is alive whatever it was.
Gol_process_job_NoSurvivalTest(buf, index, conf) ==
    LET cell_pos == index_to_pos_2d(buf, index)
        neighbor_count == get_neighbor_count(cell_pos, buf)
    IN  GolCell_from((neighbor_count = 3) \/ (neighbor_count = 2))

Gol_process_job(buf, index, conf) ==
    LET cell_pos == index_to_pos_2d(buf, index)
        cell == buf.data[index + 1]
        neighbor_count == get_neighbor_count(cell_pos, buf)
    IN  GolCell_from((neighbor_count = 3) \/ (neighbor_count = 2 /\ is_alive(cell)))

\* Jobber::process_job, dispatched on the jobber type parameter.
process_job(jobber, buf, index, conf) ==
    IF jobber = "gol" THEN Gol_process_job(buf, index, conf)
    ELSE Checkerboard_process_job(buf, index, conf)

\* ----------------------------------------------------------- single thread
\* ExecutorSingleThread::compute: for index in 0..len { out[index] = process_job(..) }.
\* Writing out_buffer[index] past the end of the slice panics.
\* Variant: the kernel reads the slice being written (the step is done in place).
RECURSIVE SingleThread_loop_InPlace(_, _, _, _, _)
SingleThread_loop_InPlace(j, in, out, c, index) ==
    IF index >= len(in) THEN [panic |-> FALSE, out |-> out]
    ELSE IF index >= Len(out) THEN [panic |-> TRUE, out |-> out]
    ELSE SingleThread_loop_InPlace(j, in,
             [out EXCEPT ![index + 1] = process_job(j, [in EXCEPT !.data = out], index, c)],
             c, index + 1)

RECURSIVE SingleThread_loop(_, _, _, _, _)
SingleThread_loop(j, in, out, c, index) ==
    IF index >= len(in) THEN [panic |-> FALSE, out |-> out]
    ELSE IF index >= Len(out) THEN [panic |-> TRUE, out |-> out]
    ELSE SingleThread_loop(j, in, [out EXCEPT ![index + 1] = process_job(j, in, index, c)],
                           c, index + 1)

SingleThread_compute(j, in, out, c) == SingleThread_loop(j, in, out, c, 0)

\* ------------------------------------------------- parallel executor parts
\* Variant: the two parameters are taken as they come.
ExecutorParallel_new_NoClamp(thread_count, wsl) ==
    [threads |-> [k \in 1..thread_count |-> k],
     work_slice_len |-> wsl,
     job_queue |-> <<>>,
     res_queue |-> <<>>,
     slices |-> <<>>]

\* ExecutorParallel::new: the clamped parameters and the spawned pool.
ExecutorParallel_new(thread_count, wsl) ==
    LET tc == Max(thread_count, 1)
    IN  [threads |-> [k \in 1..tc |-> k],
         work_slice_len |-> Max(wsl, 1),
         job_queue |-> <<>>,
         res_queue |-> <<>>,
         slices |-> <<>>]

slice_count(buffer_len, wsl) == buffer_len \div wsl

\* Variant: the remainder chunk is forgotten.
slice_leftover_None(buffer_len, wsl) == 0

slice_leftover(buffer_len, wsl) == buffer_len % wsl

\* Variant: a remainder unit is counted whether or not there is one.
true_slice_count_PlusOne(buffer_len, wsl) == slice_count(buffer_len, wsl) + 1

true_slice_count(buffer_len, wsl) ==
    slice_count(buffer_len, wsl) + (IF slice_leftover(buffer_len, wsl) > 0 THEN 1 ELSE 0)

\* get_slice: the last Vec of the pool, or a fresh empty one; returns <<vec, pool'>>.
get_slice(pool) ==
    IF pool # <<>> THEN <<pool[Len(pool)], SubSeq(pool, 1, Len(pool) - 1)>>
    ELSE <<(<<>>), pool>>

push_slice(pool, slice) == Append(pool, slice)

\* A JobDescriptor; its buffer and conf fields are clones of the call's two Arcs.
JobDescriptor(offset, count, out_buffer) ==
    [offset |-> offset, count |-> count, out_buffer |-> out_buffer]

Work(job) == [kind |-> "Work", job |-> job]
Death == [kind |-> "Death", job |-> JobDescriptor(0, 0, <<>>)]
NoJob == JobDescriptor(0, 0, <<>>)

\* The worker's body for one Work signal: clear, then push one value per index.
RECURSIVE job_fill(_, _, _, _, _, _)
job_fill(j, buf, c, out, index, end) ==
    IF index >= end THEN out
    ELSE job_fill(j, buf, c, Append(out, process_job(j, buf, index, c)), index + 1, end)

\* Variant: the storage is not cleared, the values are pushed after what it held.
job_run_NoClear(j, buf, c, job) ==
    [job EXCEPT !.out_buffer =
        job_fill(j, buf, c, job.out_buffer, job.offset, job.offset + job.count)]

\* Variant: the indices run from 0 instead of from the unit's offset.
job_run_FromZero(j, buf, c, job) ==
    [job EXCEPT !.out_buffer = job_fill(j, buf, c, <<>>, 0, job.count)]

job_run(j, buf, c, job) ==
    LET cleared == <<>>
    IN  [job EXCEPT !.out_buffer =
            job_fill(j, buf, c, cleared, job.offset, job.offset + job.count)]

\* impl From<JobDescriptor> for JobResult
JobResult_from(descriptor) ==
    [buffer |-> descriptor.out_buffer, count |-> descriptor.count, offset |-> descriptor.offset]

\* out_buffer[offset..offset + count].copy_from_slice(src); panics when the range
\* leaves the slice or the two lengths differ.
copy_panics(out, offset, count, src) == offset + count > Len(out) \/ Len(src) # count

copy_from_slice(out, offset, count, src) ==
    [k \in 1..Len(out) |->
        IF k > offset /\ k <= offset + count THEN src[k - offset] ELSE out[k]]

\* -------------------------------------------------------------------- state
VARIABLES
    exec,            \* "single" | "parallel": the executor behind the Executor trait
    jobber,          \* "gol" | "checkerboard": the TJobber type parameter
    conf,            \* the kernel config handed to compute_iterations
    iterations,      \* the iteration count handed to compute_iterations
    initial,         \* the buffer handed to compute_iterations (kept for reference)
    threads,         \* ExecutorParallel.threads: the join handles (worker ids)
    work_slice_len,  \* ExecutorParallel.work_slice_len
    job_queue,       \* ExecutorParallel.job_queue
    res_queue,       \* ExecutorParallel.res_queue
    slices,          \* ExecutorParallel.slices: the slice pool
    wpc,             \* per worker: "poll" | "into" | "push" | "dead"
    wjob,            \* per worker: the JobDescriptor / JobResult it holds
    cpc,             \* the calling thread's position
    toggle,          \* compute_iterations: toggle
    buffer,          \* compute_iterations: buffer
    buffer2,         \* compute_iterations: buffer2
    iter,            \* compute_iterations: iterations completed so far
    in_buffer,       \* compute: in_buffer (inside the Arc for the parallel executor)
    strong,          \* compute: strong count of the Arc around in_buffer (0: no Arc)
    out0,            \* compute: the output slice as it was when compute was called
    i,               \* compute / drop: loop counter
    results,         \* compute: the local Vec<JobResult> `slices`
    ret,             \* the value returned by compute, then by compute_iterations
    probe,           \* a single call of a Buffer accessor or kernel fill: its arguments
    answer           \* the value that call returned

vars == <<exec, jobber, conf, iterations, initial, threads, work_slice_len, job_queue,
          res_queue, slices, wpc, wjob, cpc, toggle, buffer, buffer2, iter, in_buffer,
          strong, out0, i, results, ret, probe, answer>>

pool_vars == <<threads, work_slice_len, job_queue, res_queue, slices>>
worker_vars == <<wpc, wjob>>
param_vars == <<exec, jobber, conf, iterations, initial, probe, answer>>
driver_vars == <<toggle, buffer, buffer2, iter>>

\* A moved-from Buffer binding (never read by the code).
Moved == [data |-> <<>>, dims |-> <<0, 0, 0>>]

NoProbe == [fn |-> "none"]
NoAnswer == [fn |-> "none", val |-> None]

Workers == DOMAIN wpc

\* The 2-D shapes whose length is at most MaxLen.
Shapes == {d \in (0..MaxLen) \X (0..MaxLen) : d[1] * d[2] <= MaxLen}

\* Grid contents the runs start from: all Dead, all Alive, and alternating cells.
Patterns(n) ==
    {[k \in 1..n |-> Dead], [k \in 1..n |-> Alive],
     [k \in 1..n |-> IF k % 2 = 1 THEN Alive ELSE Dead]}

\* The 3-D shapes of depth 1..MaxDepth whose length is at most MaxLen.
Shapes3 ==
    {d \in (0..MaxLen) \X (0..MaxLen) \X (1..MaxDepth) : d[1] * d[2] * d[3] <= MaxLen}

\* The buffers compute_iterations is started on: for Game of Life the patterns on
\* every shape and as 1-D buffers made by from_vec; for the checkerboard the all-Dead
\* buffers the three from_value constructors build (main.rs uses from_value_2d).
InitialBuffers(j) ==
    IF j = "gol"
    THEN UNION {{[data |-> d, dims |-> <<s[1], s[2], 1>>] : d \in Patterns(s[1] * s[2])} :
                   s \in Shapes}
         \cup UNION {{from_vec(d) : d \in Patterns(n)} : n \in 0..MaxLen}
    ELSE {from_value_2d(s, Dead) : s \in Shapes}
         \cup {from_value(n, Dead) : n \in 0..MaxLen}
         \cup {from_value_3d(s, Dead) : s \in Shapes3}

InitialConf(j, buf) ==
    IF j = "gol" THEN "unit" ELSE CheckerboardConf(Dead, Alive, buf.dims[1])

\* The executor as constructed: ExecutorParallel::new(tc, wsl) with its spawned
\* workers polling, or the fieldless ExecutorSingleThread.
InitExecutor(tc, wsl) ==
    /\ LET e == ExecutorParallel_new(tc, wsl)
       IN  IF exec = "parallel"
           THEN /\ threads = e.threads
                /\ work_slice_len = e.work_slice_len
                /\ job_queue = e.job_queue
                /\ res_queue = e.res_queue
                /\ slices = e.slices
           ELSE /\ threads = <<>>
                /\ work_slice_len = 1
                /\ job_queue = <<>>
                /\ res_queue = <<>>
                /\ slices = <<>>
    /\ wpc = [w \in 1..Len(threads) |-> "poll"]
    /\ wjob = [w \in 1..Len(threads) |-> NoJob]

\* The calling thread about to enter compute_iterations(iterations, initial, conf).
InitDriver ==
    /\ cpc = "start"
    /\ toggle = TRUE
    /\ buffer = initial
    /\ buffer2 = Moved
    /\ iter = 0
    /\ in_buffer = Moved
    /\ strong = 0
    /\ out0 = <<>>
    /\ i = 0
    /\ results = <<>>
    /\ ret = Moved

Init ==
    /\ exec \in {"single", "parallel"}
    /\ jobber \in {"gol", "checkerboard"}
    /\ initial \in InitialBuffers(jobber)
    /\ conf = InitialConf(jobber, initial)
    /\ iterations \in 0..MaxIter
    /\ \E tc \in 0..MaxThreads, wsl \in 0..MaxSliceLen : InitExecutor(tc, wsl)
    /\ InitDriver
    /\ probe = NoProbe
    /\ answer = NoAnswer

\* ------------------------------------------------------ compute_iterations
\* The output slice of the running compute call: &mut buffer2.data when toggle,
\* &mut buffer.data otherwise.
OutData == IF toggle THEN buffer2.data ELSE buffer.data

SetOut(d) ==
    IF toggle THEN /\ buffer2' = [buffer2 EXCEPT !.data = d]
                   /\ buffer' = buffer
    ELSE /\ buffer' = [buffer EXCEPT !.data = d]
         /\ buffer2' = buffer2

\* let mut toggle = true; let mut buffer2 = Buffer::clone(&buffer);
CI_Begin ==
    /\ cpc = "start"
    /\ toggle' = TRUE
    /\ buffer2' = buffer
    /\ cpc' = "loop"
    /\ UNCHANGED <<param_vars, pool_vars, worker_vars, buffer, iter, in_buffer, strong,
                   out0, i, results, ret>>

\* One loop turn: the input buffer is moved into compute, the other one lent as output.
CI_Call ==
    /\ cpc = "loop"
    /\ iter < iterations
    /\ in_buffer' = (IF toggle THEN buffer ELSE buffer2)
    /\ buffer' = (IF toggle THEN Moved ELSE buffer)
    /\ buffer2' = (IF toggle THEN buffer2 ELSE Moved)
    /\ out0' = OutData
    /\ cpc' = "compute"
    /\ UNCHANGED <<param_vars, pool_vars, worker_vars, toggle, iter, strong, i, results, ret>>

\* buffer = self.compute(..) / buffer2 = self.compute(..); toggle = !toggle;
CI_Assign ==
    /\ cpc = "compute_ret"
    /\ buffer' = (IF toggle THEN ret ELSE buffer)
    /\ buffer2' = (IF toggle THEN buffer2 ELSE ret)
    /\ ret' = Moved
    /\ toggle' = ~toggle
    /\ iter' = iter + 1
    /\ cpc' = "loop"
    /\ UNCHANGED <<param_vars, pool_vars, worker_vars, in_buffer, strong, out0, i, results>>

\* Variant: the parity test is inverted.
CI_Return_WrongSide ==
    /\ cpc = "loop"
    /\ iter >= iterations
    /\ ret' = (IF toggle THEN buffer2 ELSE buffer)
    /\ cpc' = "returned"
    /\ UNCHANGED <<param_vars, pool_vars, worker_vars, driver_vars, in_buffer, strong,
                   out0, i, results>>

\* return match toggle { true => buffer, false => buffer2 };
CI_Return ==
    /\ cpc = "loop"
    /\ iter >= iterations
    /\ ret' = (IF toggle THEN buffer ELSE buffer2)
    /\ cpc' = "returned"
    /\ UNCHANGED <<param_vars, pool_vars, worker_vars, driver_vars, in_buffer, strong,
                   out0, i, results>>

\* ------------------------------------------------ ExecutorSingleThread::compute
\* Variant: the buffer handed back carries the freshly computed values.
ST_Compute_ReturnsOutput ==
    /\ cpc = "compute"
    /\ exec = "single"
    /\ LET r == SingleThread_compute(jobber, in_buffer, OutData, conf)
       IN  /\ SetOut(r.out)
           /\ cpc' = (IF r.panic THEN "panic" ELSE "compute_ret")
           /\ ret' = [in_buffer EXCEPT !.data = r.out]
    /\ in_buffer' = Moved
    /\ UNCHANGED <<param_vars, pool_vars, worker_vars, toggle, iter, strong, out0, i, results>>

ST_Compute ==
    /\ cpc = "compute"
    /\ exec = "single"
    /\ LET r == SingleThread_compute(jobber, in_buffer, OutData, conf)
       IN  /\ SetOut(r.out)
           /\ cpc' = (IF r.panic THEN "panic" ELSE "compute_ret")
    /\ ret' = in_buffer
    /\ in_buffer' = Moved
    /\ UNCHANGED <<param_vars, pool_vars, worker_vars, toggle, iter, strong, out0, i, results>>

\* -------------------------------------------------- ExecutorParallel::compute
BufferLen == len(in_buffer)

\* let buffer = Arc::new(in_buffer); let conf = Arc::from(conf);
Par_Begin ==
    /\ cpc = "compute"
    /\ exec = "parallel"
    /\ strong' = 1
    /\ i' = 0
    /\ cpc' = "dispatch"
    /\ UNCHANGED <<param_vars, pool_vars, worker_vars, driver_vars, in_buffer, out0,
                   results, ret>>

\* One turn of `for i in 0..slice_count`: clone the Arcs, take a slice, push the job.
Par_Dispatch ==
    /\ cpc = "dispatch"
    /\ i < slice_count(BufferLen, work_slice_len)
    /\ LET got == get_slice(slices)
           job == JobDescriptor(i * work_slice_len, work_slice_len, got[1])
       IN  /\ slices' = got[2]
           /\ job_queue' = Append(job_queue, Work(job))
    /\ strong' = strong + 1
    /\ i' = i + 1
    /\ UNCHANGED <<param_vars, threads, work_slice_len, res_queue, worker_vars, cpc,
                   driver_vars, in_buffer, out0, results, ret>>

\* Variant: the remainder job is pushed even when the remainder is 0.
Par_Leftover_Always ==
    /\ cpc = "dispatch"
    /\ i >= slice_count(BufferLen, work_slice_len)
    /\ LET leftover == slice_leftover(BufferLen, work_slice_len)
           got == get_slice(slices)
           job == JobDescriptor(slice_count(BufferLen, work_slice_len) * work_slice_len,
                                leftover, got[1])
       IN  /\ slices' = got[2]
           /\ job_queue' = Append(job_queue, Work(job))
           /\ strong' = strong + 1
    /\ results' = <<>>
    /\ cpc' = "gather"
    /\ UNCHANGED <<param_vars, threads, work_slice_len, res_queue, worker_vars,
                   driver_vars, in_buffer, out0, i, ret>>

\* if slice_leftover > 0 { push the remainder job }; then the gather loop starts.
Par_Leftover ==
    /\ cpc = "dispatch"
    /\ i >= slice_count(BufferLen, work_slice_len)
    /\ LET leftover == slice_leftover(BufferLen, work_slice_len)
           got == get_slice(slices)
           job == JobDescriptor(slice_count(BufferLen, work_slice_len) * work_slice_len,
                                leftover, got[1])
       IN  IF leftover > 0
           THEN /\ slices' = got[2]
                /\ job_queue' = Append(job_queue, Work(job))
                /\ strong' = strong + 1
           ELSE UNCHANGED <<slices, job_queue, strong>>
    /\ results' = <<>>
    /\ cpc' = "gather"
    /\ UNCHANGED <<param_vars, threads, work_slice_len, res_queue, worker_vars,
                   driver_vars, in_buffer, out0, i, ret>>

\* Variant: the gather loop runs one turn short.
Par_Gather_OneShort ==
    /\ cpc = "gather"
    /\ IF Len(results) + 1 >= true_slice_count(BufferLen, work_slice_len)
       THEN /\ cpc' = "copy"
            /\ UNCHANGED <<results, res_queue>>
       ELSE IF res_queue # <<>>
       THEN /\ results' = Append(results, Head(res_queue))
            /\ res_queue' = Tail(res_queue)
            /\ cpc' = cpc
       ELSE UNCHANGED <<results, res_queue, cpc>>
    /\ UNCHANGED <<param_vars, threads, work_slice_len, job_queue, slices, worker_vars,
                   driver_vars, in_buffer, strong, out0, i, ret>>

\* for _ in 0..true_slice_count { loop { pop a result or yield } }
Par_Gather ==
    /\ cpc = "gather"
    /\ IF Len(results) >= true_slice_count(BufferLen, work_slice_len)
       THEN /\ cpc' = "copy"
            /\ UNCHANGED <<results, res_queue>>
       ELSE IF res_queue # <<>>
       THEN /\ results' = Append(results, Head(res_queue))
            /\ res_queue' = Tail(res_queue)
            /\ cpc' = cpc
       ELSE UNCHANGED <<results, res_queue, cpc>>
    /\ UNCHANGED <<param_vars, threads, work_slice_len, job_queue, slices, worker_vars,
                   driver_vars, in_buffer, strong, out0, i, ret>>

\* Variant: the k-th result to arrive is copied to the k-th chunk of the output.
Par_Copy_ArrivalOrder ==
    /\ cpc = "copy"
    /\ IF results = <<>>
       THEN /\ cpc' = "reclaim"
            /\ UNCHANGED <<results, slices, buffer, buffer2>>
       ELSE LET slice == Head(results)
                done == true_slice_count(BufferLen, work_slice_len) - Len(results)
                at == done * work_slice_len
            IN  IF copy_panics(OutData, at, slice.count, slice.buffer)
                THEN /\ cpc' = "panic"
                     /\ UNCHANGED <<results, slices, buffer, buffer2>>
                ELSE /\ SetOut(copy_from_slice(OutData, at, slice.count, slice.buffer))
                     /\ slices' = push_slice(slices, slice.buffer)
                     /\ results' = Tail(results)
                     /\ cpc' = cpc
    /\ UNCHANGED <<param_vars, threads, work_slice_len, job_queue, res_queue, worker_vars,
                   toggle, iter, in_buffer, strong, out0, i, ret>>

\* for slice in slices { out_buffer[..].copy_from_slice(..); self.push_slice(..) }
Par_Copy ==
    /\ cpc = "copy"
    /\ IF results = <<>>
       THEN /\ cpc' = "reclaim"
            /\ UNCHANGED <<results, slices, buffer, buffer2>>
       ELSE LET slice == Head(results)
            IN  IF copy_panics(OutData, slice.offset, slice.count, slice.buffer)
                THEN /\ cpc' = "panic"
                     /\ UNCHANGED <<results, slices, buffer, buffer2>>
                ELSE /\ SetOut(copy_from_slice(OutData, slice.offset, slice.count,
                                               slice.buffer))
                     /\ slices' = push_slice(slices, slice.buffer)
                     /\ results' = Tail(results)
                     /\ cpc' = cpc
    /\ UNCHANGED <<param_vars, threads, work_slice_len, job_queue, res_queue, worker_vars,
                   toggle, iter, in_buffer, strong, out0, i, ret>>

\* match Arc::try_unwrap(buffer) { Ok(buffer) => buffer, Err(arc) => panic!(..) }
Par_Reclaim ==
    /\ cpc = "reclaim"
    /\ IF strong = 1
       THEN /\ ret' = in_buffer
            /\ in_buffer' = Moved
            /\ strong' = 0
            /\ cpc' = "compute_ret"
       ELSE /\ cpc' = "panic"
            /\ UNCHANGED <<ret, in_buffer, strong>>
    /\ UNCHANGED <<param_vars, pool_vars, worker_vars, driver_vars, out0, i, results>>

\* ---------------------------------------------------------- Jobber::job_loop
coord_vars == <<cpc, driver_vars, out0, i, results, ret>>

\* Variant: a worker that finds the work queue empty returns instead of yielding.
WorkerPop_ExitOnEmpty(w) ==
    /\ wpc[w] = "poll"
    /\ IF job_queue # <<>>
       THEN LET signal == Head(job_queue)
            IN  /\ job_queue' = Tail(job_queue)
                /\ IF signal.kind = "Work"
                   THEN /\ wpc' = [wpc EXCEPT ![w] = "into"]
                        /\ wjob' = [wjob EXCEPT ![w] =
                                       job_run(jobber, in_buffer, conf, signal.job)]
                   ELSE /\ wpc' = [wpc EXCEPT ![w] = "dead"]
                        /\ wjob' = wjob
       ELSE /\ wpc' = [wpc EXCEPT ![w] = "dead"]
            /\ UNCHANGED <<job_queue, wjob>>
    /\ UNCHANGED <<param_vars, threads, work_slice_len, res_queue, slices, coord_vars,
                   in_buffer, strong>>

\* Variant: the signal is read from the head of the queue and left there.
WorkerPop_Peek(w) ==
    /\ wpc[w] = "poll"
    /\ IF job_queue # <<>>
       THEN LET signal == Head(job_queue)
            IN  /\ job_queue' = job_queue
                /\ IF signal.kind = "Work"
                   THEN /\ wpc' = [wpc EXCEPT ![w] = "into"]
                        /\ wjob' = [wjob EXCEPT ![w] =
                                       job_run(jobber, in_buffer, conf, signal.job)]
                   ELSE /\ wpc' = [wpc EXCEPT ![w] = "dead"]
                        /\ wjob' = wjob
       ELSE UNCHANGED <<job_queue, wpc, wjob>>
    /\ UNCHANGED <<param_vars, threads, work_slice_len, res_queue, slices, coord_vars,
                   in_buffer, strong>>

\* if let Some(signal) = job_queue.pop() { match signal .. } else { yield_now() }
\* On Work: job.out_buffer.clear(); for index in offset..offset + count { push(..) }
WorkerPop(w) ==
    /\ wpc[w] = "poll"
    /\ IF job_queue # <<>>
       THEN LET signal == Head(job_queue)
            IN  /\ job_queue' = Tail(job_queue)
                /\ IF signal.kind = "Work"
                   THEN /\ wpc' = [wpc EXCEPT ![w] = "into"]
                        /\ wjob' = [wjob EXCEPT ![w] =
                                       job_run(jobber, in_buffer, conf, signal.job)]
                   ELSE /\ wpc' = [wpc EXCEPT ![w] = "dead"]
                        /\ wjob' = wjob
       ELSE UNCHANGED <<job_queue, wpc, wjob>>
    /\ UNCHANGED <<param_vars, threads, work_slice_len, res_queue, slices, coord_vars,
                   in_buffer, strong>>

\* Variant: the result keeps the descriptor's Arc clone alive.
WorkerInto_KeepArc(w) ==
    /\ wpc[w] = "into"
    /\ wjob' = [wjob EXCEPT ![w] = JobResult_from(wjob[w])]
    /\ wpc' = [wpc EXCEPT ![w] = "push"]
    /\ UNCHANGED <<param_vars, pool_vars, coord_vars, in_buffer, strong>>

\* job.into(): the descriptor is consumed, its two Arc clones are dropped.
WorkerInto(w) ==
    /\ wpc[w] = "into"
    /\ wjob' = [wjob EXCEPT ![w] = JobResult_from(wjob[w])]
    /\ strong' = strong - 1
    /\ wpc' = [wpc EXCEPT ![w] = "push"]
    /\ UNCHANGED <<param_vars, pool_vars, coord_vars, in_buffer>>

\* res_queue.push(..)
WorkerPush(w) ==
    /\ wpc[w] = "push"
    /\ res_queue' = Append(res_queue, wjob[w])
    /\ wjob' = [wjob EXCEPT ![w] = NoJob]
    /\ wpc' = [wpc EXCEPT ![w] = "poll"]
    /\ UNCHANGED <<param_vars, threads, work_slice_len, job_queue, slices, coord_vars,
                   in_buffer, strong>>

Worker(w) == WorkerPop(w) \/ WorkerInto(w) \/ WorkerPush(w)

\* ------------------------------------------------- Drop for ExecutorParallel
\* compute_iterations has returned; the executor goes out of scope.
Drop_Begin ==
    /\ cpc = "returned"
    /\ i' = 0
    /\ cpc' = (IF exec = "parallel" THEN "drop_push" ELSE "dropped")
    /\ UNCHANGED <<param_vars, pool_vars, worker_vars, driver_vars, in_buffer, strong,
                   out0, results, ret>>

\* Variant: the loop starts at 1, so one Death signal too few is pushed.
Drop_Push_OneShort ==
    /\ cpc = "drop_push"
    /\ IF i + 1 < Len(threads)
       THEN /\ job_queue' = Append(job_queue, Death)
            /\ i' = i + 1
            /\ cpc' = cpc
       ELSE /\ cpc' = "drop_join"
            /\ UNCHANGED <<job_queue, i>>
    /\ UNCHANGED <<param_vars, threads, work_slice_len, res_queue, slices, worker_vars,
                   driver_vars, in_buffer, strong, out0, results, ret>>

\* for _ in 0..self.threads.len() { self.job_queue.push(JobSignal::Death) }
Drop_Push ==
    /\ cpc = "drop_push"
    /\ IF i < Len(threads)
       THEN /\ job_queue' = Append(job_queue, Death)
            /\ i' = i + 1
            /\ cpc' = cpc
       ELSE /\ cpc' = "drop_join"
            /\ UNCHANGED <<job_queue, i>>
    /\ UNCHANGED <<param_vars, threads, work_slice_len, res_queue, slices, worker_vars,
                   driver_vars, in_buffer, strong, out0, results, ret>>

\* while let Some(handle) = self.threads.pop() { handle.join().unwrap() }
\* join blocks until the worker has returned from job_loop.
Drop_Join ==
    /\ cpc = "drop_join"
    /\ IF threads # <<>>
       THEN /\ wpc[threads[Len(threads)]] = "dead"
            /\ threads' = SubSeq(threads, 1, Len(threads) - 1)
            /\ cpc' = cpc
       ELSE /\ cpc' = "dropped"
            /\ threads' = threads
    /\ UNCHANGED <<param_vars, work_slice_len, job_queue, res_queue, slices, worker_vars,
                   driver_vars, in_buffer, strong, out0, i, results, ret>>

Coordinator ==
    \/ CI_Begin \/ CI_Call \/ CI_Assign \/ CI_Return
    \/ ST_Compute
    \/ Par_Begin \/ Par_Dispatch \/ Par_Leftover \/ Par_Gather \/ Par_Copy \/ Par_Reclaim
    \/ Drop_Begin \/ Drop_Push \/ Drop_Join

Next == Coordinator \/ \E w \in Workers : Worker(w)

Spec == Init /\ [][Next]_vars

\* The OS schedules every runnable thread again and again: the caller and every
\* worker are weakly fair. Scheduling does not depend on the cell values, so the
\* fair runs are taken with the checkerboard kernel.
InitFair == Init /\ jobber = "checkerboard"

FairSpec ==
    InitFair /\ [][Next]_vars /\ WF_vars(Coordinator)
             /\ \A w \in 1..Max(MaxThreads, 1) : WF_vars(w \in Workers /\ Worker(w))

\* ------------------------------------------------- runs built from small arguments
\* A fourth specification: the runs of Spec whose parallel executor is constructed
\* with a thread count and a work slice length of 0 or 1, the two arguments recorded.
NewArgs == {[fn |-> "new", thread_count |-> tc, work_slice_len |-> wsl] :
               tc \in {0, 1}, wsl \in {0, 1}}

InitClamp ==
    /\ exec \in {"single", "parallel"}
    /\ jobber \in {"gol", "checkerboard"}
    /\ initial \in InitialBuffers(jobber)
    /\ conf = InitialConf(jobber, initial)
    /\ iterations \in 0..MaxIter
    /\ IF exec = "parallel"
       THEN /\ probe \in NewArgs
            /\ InitExecutor(probe.thread_count, probe.work_slice_len)
       ELSE /\ probe = NoProbe
            /\ InitExecutor(1, 1)
    /\ InitDriver
    /\ answer = NoAnswer

ClampSpec == InitClamp /\ [][Next]_vars

\* ------------------------------------------------------- oscillator runs
\* A third specification: compute_iterations with the Game of Life kernel, started
\* on a grid that holds one still life or one oscillator and nothing else.

\* The w x h grid whose Alive cells are exactly the positions in `cells`.
GridOf(w, h, cells) ==
    [data |-> [k \in 1..(w * h) |->
                  IF <<(k - 1) % w, (k - 1) \div w>> \in cells THEN Alive ELSE Dead],
     dims |-> <<w, h, 1>>]

HLine(c) == {<<c[1] - 1, c[2]>>, c, <<c[1] + 1, c[2]>>}
VLine(c) == {<<c[1], c[2] - 1>>, c, <<c[1], c[2] + 1>>}
Block(c) == {c, <<c[1] + 1, c[2]>>, <<c[1], c[2] + 1>>, <<c[1] + 1, c[2] + 1>>}

\* The starts: a 3-cell horizontal line with a row above and below it and a column
\* on each side of its centre, or a 2x2 block, at every place of every grid.
Starts ==
    UNION {{[fn |-> "line", dims |-> <<w, h>>, pos |-> <<x, y>>] :
               x \in 1..(w - 2), y \in 1..(h - 2)}
           \cup {[fn |-> "block", dims |-> <<w, h>>, pos |-> <<x, y>>] :
               x \in 0..(w - 2), y \in 0..(h - 2)} :
           w \in 2..MaxGolGrid, h \in 2..MaxGolGrid}

StartGrid(p) ==
    GridOf(p.dims[1], p.dims[2], IF p.fn = "line" THEN HLine(p.pos) ELSE Block(p.pos))

\* The parallel executor of these runs has MaxThreads workers and three rows per unit.
InitGol ==
    /\ exec \in {"single", "parallel"}
    /\ jobber = "gol"
    /\ probe \in Starts
    /\ initial = StartGrid(probe)
    /\ conf = "unit"
    /\ iterations \in 0..MaxGolIter
    /\ InitExecutor(MaxThreads, 3 * initial.dims[1])
    /\ InitDriver
    /\ answer = NoAnswer

GolSpec == InitGol /\ [][Next]_vars

\* ------------------------------------------------- accessor and kernel calls
\* A second specification: one call of a pure function on drawn arguments.

\* A width x height buffer whose element at flat index k is the number k, so that
\* the element an accessor returns names the position it was read from.
TaggedBuffer(w, h) == [data |-> [k \in 1..(w * h) |-> k - 1], dims |-> <<w, h, 1>>]

Probes_at_2d_i32 ==
    {[fn |-> "at_2d_i32", buf |-> TaggedBuffer(w, h), pos |-> <<x, y>>] :
        w \in 0..MaxDim, h \in 0..MaxDim,
        x \in (0 - MaxCoordSlack)..(MaxDim + MaxCoordSlack),
        y \in (0 - MaxCoordSlack)..(MaxDim + MaxCoordSlack)}

Probes_at_2d ==
    {[fn |-> "at_2d", buf |-> TaggedBuffer(w, h), pos |-> <<x, y>>] :
        w \in 0..MaxDim, h \in 0..MaxDim,
        x \in 0..(MaxDim + MaxCoordSlack), y \in 0..(MaxDim + MaxCoordSlack)}

Probes_checkerboard ==
    {[fn |-> "checkerboard", buf |-> from_value_2d(<<w, h>>, Dead),
      conf |-> CheckerboardConf(c[1], c[2], w)] :
        w \in 1..MaxCheckerWidth, h \in 1..MaxCheckerHeight,
        c \in {<<Dead, Alive>>, <<Alive, Dead>>}}

\* Every grid of GolCell values, of every shape of at most MaxGolCells cells.
Probes_gol ==
    UNION {{[fn |-> "gol", buf |-> [data |-> d, dims |-> <<s[1], s[2], 1>>]] :
               d \in [1..(s[1] * s[2]) -> GolCell]} :
           s \in {t \in (1..MaxGolCells) \X (1..MaxGolCells) : t[1] * t[2] <= MaxGolCells}}

engine_vars == <<exec, jobber, conf, iterations, initial, threads, work_slice_len,
                 job_queue, res_queue, slices, wpc, wjob, cpc, toggle, buffer, buffer2,
                 iter, in_buffer, strong, out0, i, results, ret>>

InitCalls ==
    /\ \/ probe \in Probes_at_2d_i32
       \/ probe \in Probes_at_2d
       \/ probe \in Probes_checkerboard
       \/ probe \in Probes_gol
    /\ answer = NoAnswer
    /\ exec = "single"
    /\ jobber = "checkerboard"
    /\ conf = "unit"
    /\ iterations = 0
    /\ initial = Moved
    /\ threads = <<>>
    /\ work_slice_len = 1
    /\ job_queue = <<>>
    /\ res_queue = <<>>
    /\ slices = <<>>
    /\ wpc = <<>>
    /\ wjob = <<>>
    /\ cpc = "call"
    /\ toggle = TRUE
    /\ buffer = Moved
    /\ buffer2 = Moved
    /\ iter = 0
    /\ in_buffer = Moved
    /\ strong = 0
    /\ out0 = <<>>
    /\ i = 0
    /\ results = <<>>
    /\ ret = Moved

Call_at_2d ==
    /\ probe.fn = "at_2d"
    /\ answer = NoAnswer
    /\ answer' = [fn |-> probe.fn, val |-> at_2d(probe.buf, probe.pos)]
    /\ UNCHANGED <<engine_vars, probe>>

Call_at_2d_i32 ==
    /\ probe.fn = "at_2d_i32"
    /\ answer = NoAnswer
    /\ answer' = [fn |-> probe.fn, val |-> at_2d_i32(probe.buf, probe.pos)]
    /\ UNCHANGED <<engine_vars, probe>>

\* main.rs: the single-thread executor fills a Dead grid with the checkerboard kernel.
Call_checkerboard ==
    /\ probe.fn = "checkerboard"
    /\ answer = NoAnswer
    /\ answer' = [fn |-> probe.fn,
                  val |-> SingleThread_compute("checkerboard", probe.buf, probe.buf.data,
                                               probe.conf).out]
    /\ UNCHANGED <<engine_vars, probe>>

\* One Game of Life step of the whole grid: ExecutorSingleThread::compute with
\* GolJobber, the output slice being a clone of the input's data.
Call_gol ==
    /\ probe.fn = "gol"
    /\ answer = NoAnswer
    /\ answer' = [fn |-> probe.fn,
                  val |-> SingleThread_compute("gol", probe.buf, probe.buf.data, "unit").out]
    /\ UNCHANGED <<engine_vars, probe>>

NextCalls == Call_at_2d \/ Call_at_2d_i32 \/ Call_checkerboard \/ Call_gol

CallSpec == InitCalls /\ [][NextCalls]_vars

\* ==================================================================== claims

\* The index range [offset, offset + count) of a unit or result.
InRange(u, idx) == idx >= u.offset /\ idx < u.offset + u.count

\* Every Work Unit of the running compute call that has been pushed and not yet
\* copied out: in the work queue, held by a worker, in the result queue, or popped
\* by the caller. Each is named by where it is.
UnitsInFlight ==
    {<<"job_queue", k>> : k \in {n \in 1..Len(job_queue) : job_queue[n].kind = "Work"}}
    \cup {<<"worker", w>> : w \in {v \in Workers : wpc[v] \in {"into", "push"}}}
    \cup {<<"res_queue", k>> : k \in 1..Len(res_queue)}
    \cup {<<"results", k>> : k \in 1..Len(results)}

UnitAt(u) ==
    IF u[1] = "job_queue" THEN job_queue[u[2]].job
    ELSE IF u[1] = "worker" THEN wjob[u[2]]
    ELSE IF u[1] = "res_queue" THEN res_queue[u[2]]
    ELSE results[u[2]]

\* The kernel's value for every index of a buffer.
KernelImage(buf) == [k \in 1..len(buf) |-> process_job(jobber, buf, k - 1, conf)]

\* ---- C1 -------------------------------------------------------------------
\* C1: when ExecutorParallel::compute returns, the output slice holds exactly
\* what ExecutorSingleThread::compute leaves in it on the same input buffer,
\* output slice and config; the parallel call does not panic.
C1_ParallelEqualsSingleThread ==
    (exec = "parallel" /\ cpc \in {"compute_ret", "panic"}) =>
        LET single == SingleThread_compute(jobber, ret, out0, conf)
        IN  /\ cpc = "compute_ret"
            /\ ~single.panic
            /\ OutData = single.out

\* A parallel compute call has returned on two threads, with a work-slice length
\* that does not divide the buffer length and is smaller than it.
C1_Witness ==
    /\ exec = "parallel"
    /\ cpc = "compute_ret"
    /\ Len(threads) = 2
    /\ len(ret) > work_slice_len
    /\ len(ret) % work_slice_len # 0
    /\ OutData # out0

\* ---- C2 -------------------------------------------------------------------
\* C2: once every Work Unit of a compute call is pushed, their ranges partition
\* [0, L): true_slice_count units, none empty, none past L, every index in
\* exactly one.
C2_UnitsPartitionBuffer ==
    (exec = "parallel" /\ cpc = "gather") =>
        /\ Cardinality(UnitsInFlight) =
               (BufferLen \div work_slice_len)
                   + (IF BufferLen % work_slice_len > 0 THEN 1 ELSE 0)
        /\ \A u \in UnitsInFlight :
               /\ UnitAt(u).count >= 1
               /\ UnitAt(u).offset >= 0
               /\ UnitAt(u).offset + UnitAt(u).count <= BufferLen
        /\ \A idx \in 0..(BufferLen - 1) :
               Cardinality({u \in UnitsInFlight : InRange(UnitAt(u), idx)}) = 1

\* All units of a call are pushed, with full chunks and a remainder chunk.
C2_Witness ==
    /\ exec = "parallel"
    /\ cpc = "gather"
    /\ BufferLen > work_slice_len
    /\ BufferLen % work_slice_len # 0
    /\ Cardinality(UnitsInFlight) >= 2

\* ---- C3 -------------------------------------------------------------------
\* C3: whatever the interleaving and the arrival order of the Results, every
\* Result carries the kernel's values for its own range, and once all are copied
\* the output holds the kernel's value at every index of [0, L).
C3_OutputIndependentOfInterleaving ==
    exec = "parallel" =>
        /\ cpc # "panic"
        /\ \A r \in {res_queue[k] : k \in 1..Len(res_queue)}
                   \cup {results[k] : k \in 1..Len(results)} :
               /\ Len(r.buffer) = r.count
               /\ \A n \in 1..r.count :
                      r.buffer[n] = process_job(jobber, in_buffer, r.offset + n - 1, conf)
        /\ cpc = "reclaim" =>
               \A idx \in 0..(BufferLen - 1) :
                   OutData[idx + 1] = process_job(jobber, in_buffer, idx, conf)

\* The copy loop is about to run on Results that arrived out of offset order.
C3_Witness ==
    /\ exec = "parallel"
    /\ cpc = "copy"
    /\ Len(results) = true_slice_count(BufferLen, work_slice_len)
    /\ \E a, b \in 1..Len(results) : a < b /\ results[a].offset > results[b].offset

\* ---- C4 -------------------------------------------------------------------
\* C4: the strong count of the shared input buffer is one (the caller's handle)
\* plus one per unit in the work queue or held unconverted by a worker; at the
\* reclaim step it is exactly 1, so the abort is unreachable.
C4_ArcReleasedBeforeReclaim ==
    exec = "parallel" =>
        /\ cpc = "reclaim" => strong = 1
        /\ strong > 0 =>
               strong = 1 + Cardinality({k \in 1..Len(job_queue) : job_queue[k].kind = "Work"})
                          + Cardinality({w \in Workers : wpc[w] = "into"})
        /\ cpc # "panic"

\* The reclaim step is reached after units were processed by two workers.
C4_Witness ==
    /\ exec = "parallel"
    /\ cpc = "reclaim"
    /\ Len(threads) = 2
    /\ BufferLen > work_slice_len
    /\ strong = 1

\* ---- C5 -------------------------------------------------------------------
DeathsQueued == Cardinality({k \in 1..Len(job_queue) : job_queue[k].kind = "Death"})
DeadWorkers == {w \in Workers : wpc[w] = "dead"}

PoolShutDown ==
    /\ cpc = "dropped"
    /\ DeadWorkers = Workers
    /\ job_queue = <<>>
    /\ threads = <<>>

\* C5: dropping the executor pushes exactly one Death signal per worker, each
\* worker consumes exactly one and stops, and under fair scheduling the drop
\* completes with every worker terminated, no Death signal left in the work
\* queue and the handle list empty.
C5_PoolShutdown ==
    /\ [](exec = "parallel" =>
            /\ cpc \in {"drop_push", "drop_join", "dropped"} =>
                   /\ DeathsQueued + Cardinality(DeadWorkers) = i
                   /\ i <= Cardinality(Workers)
            /\ cpc \in {"drop_join", "dropped"} => i = Cardinality(Workers)
            /\ cpc = "dropped" => PoolShutDown)
    /\ (exec = "parallel" /\ cpc = "returned") ~> PoolShutDown

\* An executor with the largest pool, dropped right after construction (no
\* compute call was made), has shut down.
C5_Witness ==
    /\ exec = "parallel"
    /\ iterations = 0
    /\ Cardinality(Workers) = MaxThreads
    /\ PoolShutDown

\* The same after compute calls.
C5_WitnessAfterCompute ==
    /\ exec = "parallel"
    /\ iterations = MaxIter
    /\ len(initial) > 1
    /\ PoolShutDown

\* ---- C6 -------------------------------------------------------------------
\* One compute step applied n times in sequence, each reading the previous output.
RECURSIVE Iterate(_, _)
Iterate(n, buf) ==
    IF n = 0 THEN buf ELSE Iterate(n - 1, [buf EXCEPT !.data = KernelImage(buf)])

\* C6: compute_iterations(n, initial, config) returns the initial buffer stepped
\* n times; the returned buffer is `buffer` for even n and `buffer2` for odd n,
\* and for n = 0 it is the initial buffer unchanged.
C6_PingPong ==
    cpc = "returned" =>
        /\ ret = Iterate(iterations, initial)
        /\ ret = (IF iterations % 2 = 0 THEN buffer ELSE buffer2)
        /\ iter = iterations

\* compute_iterations returned from the parallel executor after the largest
\* number of iterations, on a grid that changed in each of two steps.
C6_Witness ==
    /\ cpc = "returned"
    /\ exec = "parallel"
    /\ iterations = MaxIter
    /\ iterations >= 2
    /\ Iterate(1, initial) # initial
    /\ Iterate(2, initial) # Iterate(1, initial)
    /\ ret # Iterate(iterations - 1, initial)

\* ---- C7 -------------------------------------------------------------------
\* C7: at_2d_i32 returns absent when x < 0, y < 0, x >= width or y >= height, and
\* otherwise the element stored at flat index x + y * width.
C7_at_2d_i32_Clamps ==
    answer.fn = "at_2d_i32" =>
        LET x == probe.pos[1]
            y == probe.pos[2]
            w == probe.buf.dims[1]
            h == probe.buf.dims[2]
        IN  IF x < 0 \/ y < 0 \/ x >= w \/ y >= h
            THEN answer.val = None
            ELSE answer.val = Some(probe.buf.data[x + y * w + 1])

\* A call with x exactly the width, on a row that is not the last: the flat index
\* x + y * width would be in range, and the call answered absent.
C7_Witness ==
    /\ answer.fn = "at_2d_i32"
    /\ probe.buf.dims[1] = MaxDim
    /\ probe.pos[1] = probe.buf.dims[1]
    /\ probe.pos[2] + 1 < probe.buf.dims[2]
    /\ answer.val = None

\* ---- C8 -------------------------------------------------------------------
\* C8: at_2d((x, y)) returns absent whenever x >= width or y >= height, and the
\* element at row-major index x + y * width otherwise.
C8_at_2d_Checked ==
    answer.fn = "at_2d" =>
        LET x == probe.pos[1]
            y == probe.pos[2]
            w == probe.buf.dims[1]
            h == probe.buf.dims[2]
        IN  IF x >= w \/ y >= h
            THEN answer.val = None
            ELSE answer.val = Some(probe.buf.data[x + y * w + 1])

\* ---- C9 -------------------------------------------------------------------
\* C9 as stated: the checkerboard value of cell i is color_b iff
\* (i + i div W) mod 2 = 0.
C9_ColorB_OnEvenKey ==
    answer.fn = "checkerboard" =>
        \A idx \in 0..(Len(answer.val) - 1) :
            (answer.val[idx + 1] = probe.conf.color_b)
                <=> ((idx + (idx \div probe.conf.width)) % 2 = 0)

\* C9 amended: the checkerboard value of cell i is color_a iff
\* (i + i div W) mod 2 = 0, and color_b otherwise.
C9_ColorA_OnEvenKey ==
    answer.fn = "checkerboard" =>
        \A idx \in 0..(Len(answer.val) - 1) :
            /\ answer.val[idx + 1] \in {probe.conf.color_a, probe.conf.color_b}
            /\ (answer.val[idx + 1] = probe.conf.color_a)
                   <=> ((idx + (idx \div probe.conf.width)) % 2 = 0)

\* A filled grid of the largest width with more than one row.
C9_Witness ==
    /\ answer.fn = "checkerboard"
    /\ probe.conf.width = MaxCheckerWidth
    /\ Len(answer.val) > probe.conf.width

\* ---- C10 ------------------------------------------------------------------
\* C10: two cells get the same checkerboard colour exactly when the parities of
\* x + y agree, (x, y) = (i mod W, i div W) being the cell's grid coordinates.
C10_KeyedByCoordinateParity ==
    answer.fn = "checkerboard" =>
        \A a, b \in 0..(Len(answer.val) - 1) :
            LET W == probe.conf.width
            IN  (answer.val[a + 1] = answer.val[b + 1])
                    <=> (((a % W) + (a \div W)) % 2 = ((b % W) + (b \div W)) % 2)

\* The Alive cells among the neighbours of (x, y) that lie inside the grid, counted
\* from the coordinates (not through the accessors).
LiveNeighbours(buf, x, y) ==
    Cardinality({p \in ((x - 1)..(x + 1)) \X ((y - 1)..(y + 1)) :
        /\ p # <<x, y>>
        /\ p[1] >= 0 /\ p[1] < buf.dims[1]
        /\ p[2] >= 0 /\ p[2] < buf.dims[2]
        /\ buf.data[p[1] + p[2] * buf.dims[1] + 1] = Alive})

\* C11: after one Game of Life step every cell of the grid, corners and edges
\* included, is Alive exactly when its in-bounds neighbours hold 3 Alive cells, or 2
\* and the cell itself was Alive; cells outside the grid count as not alive, nothing
\* is read from the opposite edge or from the adjacent row.
C11_GolRule_HardEdges ==
    answer.fn = "gol" =>
        /\ Len(answer.val) = len(probe.buf)
        /\ \A x \in 0..(probe.buf.dims[1] - 1), y \in 0..(probe.buf.dims[2] - 1) :
              LET idx == x + y * probe.buf.dims[1]
                  n == LiveNeighbours(probe.buf, x, y)
              IN  (answer.val[idx + 1] = Alive)
                      <=> (n = 3 \/ (n = 2 /\ probe.buf.data[idx + 1] = Alive))

\* A dead cell on the right edge with 2 Alive neighbours inside the grid stays Dead
\* although the first cell of the next row, which is not its neighbour, is Alive.
C11_Witness ==
    /\ answer.fn = "gol"
    /\ probe.buf.dims = <<3, 3, 1>>
    /\ probe.buf.data[3] = Dead
    /\ LiveNeighbours(probe.buf, 2, 0) = 2
    /\ probe.buf.data[4] = Alive
    /\ answer.val[3] = Dead

\* C12: compute_iterations on a grid whose only live cells are a 3-cell horizontal
\* line returns the starting grid for an even iteration count and the 3-cell vertical
\* line through the same centre for an odd one, each compute step turning the one
\* line into the other; on a grid whose only live cells are a 2x2 block every step
\* and every iteration count give the same grid back.
C12_BlinkerAndBlock ==
    LET w == initial.dims[1]
        h == initial.dims[2]
        vertical == GridOf(w, h, VLine(probe.pos))
    IN  /\ (probe.fn = "line" /\ cpc = "compute_ret")
               => OutData = (IF iter % 2 = 0 THEN vertical.data ELSE initial.data)
        /\ (probe.fn = "line" /\ cpc = "returned")
               => ret = (IF iterations % 2 = 0 THEN initial ELSE vertical)
        /\ (probe.fn = "block" /\ cpc = "compute_ret") => OutData = initial.data
        /\ (probe.fn = "block" /\ cpc = "returned") => ret = initial

\* The parallel executor has returned the vertical line after 3 iterations.
C12_Witness ==
    /\ probe.fn = "line"
    /\ exec = "parallel"
    /\ cpc = "returned"
    /\ iterations = 3
    /\ ret = GridOf(initial.dims[1], initial.dims[2], VLine(probe.pos))
    /\ ret # initial

\* C13: an executor constructed with a thread count and / or a work slice length
\* of 0 is the executor constructed with (1, 1): it has exactly one worker and unit
\* size 1, no compute call on it panics (no division by zero), while the caller
\* gathers results the one worker is alive, and every compute call leaves in the
\* output what the kernel gives on the input, as the (1, 1) executor does.
C13_ClampedToOne ==
    probe.fn = "new" =>
        LET one == ExecutorParallel_new(1, 1)
        IN  /\ Cardinality(Workers) = Len(one.threads)
            /\ Cardinality(Workers) = 1
            /\ work_slice_len = one.work_slice_len
            /\ work_slice_len = 1
            /\ cpc \notin {"drop_push", "drop_join", "dropped"} => Len(threads) = 1
            /\ cpc # "panic"
            /\ cpc = "gather" => \A w \in Workers : wpc[w] # "dead"
            /\ cpc = "compute_ret" => OutData = KernelImage(ret)
            /\ cpc = "returned" => ret = Iterate(iterations, initial)

\* The executor built from (0, 0) has returned from its second compute call on a
\* Game of Life grid of the largest length, with a changed output.
C13_Witness ==
    /\ probe.fn = "new"
    /\ probe.thread_count = 0
    /\ probe.work_slice_len = 0
    /\ jobber = "gol"
    /\ cpc = "compute_ret"
    /\ iter = 1
    /\ len(ret) = MaxLen
    /\ OutData # out0

\* data.len() == dims.0 * dims.1 * dims.2
WellFormed(b) == Len(b.data) = b.dims[1] * b.dims[2] * b.dims[3]

\* The Buffer values alive in the caller: the bindings that are not moved from.
LiveBuffers == {b \in {buffer, buffer2, in_buffer, ret} : b # Moved}

\* C14: the buffer a constructor made has data.len() = dims.0 * dims.1 * dims.2, and
\* so has every buffer of the run at every step of every compute call and between the
\* iterations, each with the dims and the length of the initial one; between two
\* compute calls both buffers of the ping-pong pair exist, with these dims and length.
C14_ShapeKept ==
    /\ WellFormed(initial)
    /\ \A b \in LiveBuffers :
          /\ WellFormed(b)
          /\ b.dims = initial.dims
          /\ len(b) = len(initial)
    /\ cpc = "loop" => (buffer # Moved /\ buffer2 # Moved)
    /\ cpc \in {"compute", "dispatch", "gather", "copy", "reclaim"}
          => (in_buffer # Moved /\ Len(OutData) = len(in_buffer))

\* The parallel executor has returned from its second compute call on a buffer of
\* depth 2 that from_value_3d built.
C14_Witness ==
    /\ exec = "parallel"
    /\ cpc = "compute_ret"
    /\ iter = 1
    /\ initial.dims[3] = 2
    /\ len(initial) = 2
    /\ ret = from_value_3d(initial.dims, Dead)

\* The calling thread is inside a compute call.
InCompute == cpc \in {"compute", "dispatch", "gather", "copy", "reclaim"}

\* C15: no step taken while a compute call runs, by the caller or by a worker,
\* changes the input buffer or the config; the step that returns hands back exactly
\* the input buffer; the length of the output slice, its elements from len on, the
\* dims around it and the caller's other binding stay as they are.
C15_InputReturnedUnchanged ==
    [][InCompute =>
          /\ conf' = conf
          /\ \/ in_buffer' = in_buffer /\ ret' = ret
             \/ cpc' = "compute_ret" /\ ret' = in_buffer
          /\ toggle' = toggle
          /\ Len(OutData') = Len(OutData)
          /\ \A k \in (len(in_buffer) + 1)..Len(OutData) : OutData'[k] = OutData[k]
          /\ buffer'.dims = buffer.dims
          /\ buffer2'.dims = buffer2.dims
          /\ IF toggle THEN buffer' = buffer ELSE buffer2' = buffer2
          /\ initial' = initial]_vars

\* The parallel executor has returned its input from the second compute call, and
\* the output it wrote differs from that input and from what the slice held before.
C15_Witness ==
    /\ exec = "parallel"
    /\ cpc = "compute_ret"
    /\ iter = 1
    /\ ret = Iterate(1, initial)
    /\ OutData # out0
    /\ OutData # ret.data

\* C16: when ExecutorSingleThread::compute returns, position i of the output slice
\* holds the kernel's value for (input, i, config) for every i below the input's
\* length, the input being the returned, unchanged buffer; the rest of the slice is
\* as before. The indices are taken in increasing order: on an output slice cut to
\* its first n elements the loop stops at index n with exactly the values of
\* 0 .. n - 1 written.
C16_SingleThreadCompute ==
    (exec = "single" /\ cpc = "compute_ret") =>
        /\ Len(OutData) = Len(out0)
        /\ \A idx \in 0..(len(ret) - 1) :
              OutData[idx + 1] = process_job(jobber, ret, idx, conf)
        /\ \A k \in (len(ret) + 1)..Len(OutData) : OutData[k] = out0[k]
        /\ \A n \in 0..Len(out0) :
              LET r == SingleThread_compute(jobber, ret, SubSeq(out0, 1, n), conf)
              IN  /\ r.panic <=> n < len(ret)
                  /\ Len(r.out) = n
                  /\ \A idx \in 0..(n - 1) :
                        idx < len(ret) => r.out[idx + 1] = process_job(jobber, ret, idx, conf)

\* The single-thread executor has returned from a Game of Life step of the
\* alternating grid of the largest length, whose in-place step would differ.
C16_Witness ==
    /\ exec = "single"
    /\ jobber = "gol"
    /\ cpc = "compute_ret"
    /\ len(ret) = MaxLen
    /\ OutData # ret.data
    /\ OutData # SingleThread_loop_InPlace(jobber, ret, ret.data, conf, 0).out

\* C17: in a compute call of the parallel executor no step before the end of the
\* gather loop writes the output slice or returns; the gather loop is left, for the
\* copy loop, only with exactly true_slice_count Results popped; a Result leaves the
\* result queue only by a pop of the gather loop with fewer than true_slice_count
\* popped so far, one Result per pop; nothing is popped after the barrier.
C17_StrictBarrier ==
    [][(exec = "parallel" /\ InCompute) =>
          LET tsc == true_slice_count(BufferLen, work_slice_len)
          IN  /\ cpc \in {"compute", "dispatch", "gather"}
                    => (OutData' = OutData /\ cpc' \in {"dispatch", "gather", "copy"})
              /\ (cpc = "gather" /\ cpc' # "gather")
                    => (cpc' = "copy" /\ Len(results) = tsc /\ results' = results)
              /\ cpc' = "copy" => cpc \in {"gather", "copy"}
              /\ Len(res_queue') < Len(res_queue)
                    => /\ cpc = "gather"
                       /\ Len(results) < tsc
                       /\ results' = Append(results, Head(res_queue))
                       /\ res_queue' = Tail(res_queue)
              /\ (cpc = "gather" /\ results' # results)
                    => (Len(res_queue') < Len(res_queue) /\ Len(results') <= tsc)
              /\ cpc \in {"copy", "reclaim"} => res_queue' = res_queue]_vars

\* The barrier has just been passed with two or more Results popped: nothing of the
\* output slice is written yet although the Results will change it.
C17_Witness ==
    /\ exec = "parallel"
    /\ cpc = "copy"
    /\ Len(results) = true_slice_count(BufferLen, work_slice_len)
    /\ Len(results) >= 2
    /\ res_queue = <<>>
    /\ OutData = out0
    /\ OutData # KernelImage(in_buffer)

\* The offsets of the units in flight, and the number of output storages there
\* are: one with every unit in flight, the others in the Slice Pool.
OffsetsInFlight == {UnitAt(u).offset : u \in UnitsInFlight}
StorageCount == Cardinality(UnitsInFlight) + Len(slices)

\* C18: no two units or Results in flight carry the same offset; from the last push
\* to the barrier the call has exactly true_slice_count units in flight, after the
\* barrier all that are left are with the caller, and outside a call there is none.
\* No step of a worker or of the gather loop changes the offsets in flight (a unit
\* moves from one holder to one other); the copy loop takes one Result at a time and
\* puts its storage into the Slice Pool; the number of storages changes only when the
\* dispatch takes one from an empty pool.
C18_UnitsExactlyOnce ==
    /\ [](exec = "parallel" =>
            /\ Cardinality(OffsetsInFlight) = Cardinality(UnitsInFlight)
            /\ cpc = "gather"
                  => Cardinality(UnitsInFlight) = true_slice_count(BufferLen, work_slice_len)
            /\ cpc \in {"copy", "reclaim"}
                  => UnitsInFlight = {<<"results", k>> : k \in 1..Len(results)}
            /\ ~InCompute => UnitsInFlight = {})
    /\ [][exec = "parallel" =>
            /\ cpc \notin {"dispatch", "copy"} => OffsetsInFlight' = OffsetsInFlight
            /\ cpc = "dispatch"
                  => /\ OffsetsInFlight \subseteq OffsetsInFlight'
                     /\ Cardinality(UnitsInFlight') <= Cardinality(UnitsInFlight) + 1
            /\ cpc = "copy"
                  => /\ OffsetsInFlight' \subseteq OffsetsInFlight
                     /\ Cardinality(UnitsInFlight') >= Cardinality(UnitsInFlight) - 1
            /\ StorageCount' >= StorageCount
            /\ StorageCount' # StorageCount
                  => /\ cpc = "dispatch"
                     /\ slices = <<>>
                     /\ StorageCount' = StorageCount + 1]_vars

\* Three units of one call are at once in three kinds of holder (of the work queue,
\* a worker, the result queue and the caller).
C18_Witness ==
    /\ exec = "parallel"
    /\ cpc = "gather"
    /\ Cardinality({u[1] : u \in UnitsInFlight}) >= 3
    /\ Cardinality(OffsetsInFlight) >= 3

\* C19: with the caller and every worker scheduled again and again, every compute
\* call of the parallel executor that is entered returns: neither the workers' poll
\* loop nor the caller's gather loop spins forever, whatever the buffer length, the
\* unit size and the number of workers.
C19_ComputeReturns ==
    (exec = "parallel" /\ cpc = "compute") ~> (cpc = "compute_ret")

\* A compute call with three units and a single worker has returned.
C19_Witness ==
    /\ exec = "parallel"
    /\ cpc = "compute_ret"
    /\ Cardinality(Workers) = 1
    /\ work_slice_len = 1
    /\ len(ret) = MaxLen
    /\ len(ret) > Cardinality(Workers)

\* A compute call on an empty buffer (zero units) has returned.
C19_WitnessNoUnits ==
    /\ exec = "parallel"
    /\ cpc = "compute_ret"
    /\ len(ret) = 0

\* Destruction of the executor has begun.
Dropping == cpc \in {"drop_push", "drop_join", "dropped"}

\* C20: until destruction begins every worker spawned at construction is alive, one
\* per join handle, and no Death signal is in the work queue, whatever the number of
\* compute calls made; no step adds a worker, a stopped worker stays stopped, the
\* handle list is untouched by compute, and a worker stops only in the step that
\* pops a Death signal from the work queue.
C20_PersistentPool ==
    /\ [](exec = "parallel" =>
            /\ Cardinality(Workers) >= 1
            /\ ~Dropping =>
                  /\ DeadWorkers = {}
                  /\ DeathsQueued = 0
                  /\ Len(threads) = Cardinality(Workers))
    /\ [][/\ DOMAIN wpc' = DOMAIN wpc
          /\ ~Dropping => threads' = threads
          /\ \A w \in Workers :
                /\ wpc[w] = "dead" => wpc'[w] = "dead"
                /\ (wpc[w] # "dead" /\ wpc'[w] = "dead")
                      => /\ job_queue # <<>>
                         /\ Head(job_queue) = Death
                         /\ job_queue' = Tail(job_queue)
                         /\ Dropping]_vars

\* compute_iterations has returned after the largest number of compute calls and
\* the whole pool of the largest size is still alive.
C20_Witness ==
    /\ exec = "parallel"
    /\ cpc = "returned"
    /\ iterations = MaxIter
    /\ len(initial) >= 2
    /\ Cardinality(Workers) = MaxThreads
    /\ DeadWorkers = {}
    /\ \A w \in Workers : wpc[w] = "poll"

\* No unit and no Result is anywhere in the pool: both queues are empty and every
\* worker is polling with nothing in hand.
PoolIdle ==
    /\ job_queue = <<>>
    /\ res_queue = <<>>
    /\ \A w \in Workers : wpc[w] = "poll" /\ wjob[w] = NoJob

\* C21: whenever a compute call of the parallel executor has returned, and so
\* whenever the next one is entered, both queues are empty and no worker holds a
\* unit or a Result: nothing of one call is left for a later call to pop.
C21_NothingLeftBetweenCalls ==
    (exec = "parallel" /\ cpc \in {"start", "loop", "compute", "compute_ret", "returned"})
        => PoolIdle

\* The second compute call of a run, with two or more units and the largest pool,
\* has returned.
C21_Witness ==
    /\ exec = "parallel"
    /\ cpc = "compute_ret"
    /\ iter = 1
    /\ true_slice_count(len(ret), work_slice_len) >= 2
    /\ Cardinality(Workers) = MaxThreads
    /\ PoolIdle
    /\ Len(slices) >= 2

\* The values a unit's storage must hold once the worker has run the unit.
UnitValues(u) ==
    [n \in 1..u.count |-> process_job(jobber, in_buffer, u.offset + n - 1, conf)]

\* A unit waiting in the work queue whose storage, taken from the Slice Pool, still
\* holds values of an earlier call and is not of the unit's length.
StaleUnits ==
    {k \in 1..Len(job_queue) :
        /\ job_queue[k].kind = "Work"
        /\ job_queue[k].job.out_buffer # <<>>
        /\ Len(job_queue[k].job.out_buffer) # job_queue[k].job.count}

\* C22: whatever the storage of a unit held when it came from the Slice Pool, once a
\* worker has run the unit the storage holds exactly count values, the j-th being the
\* kernel's value for index offset + j of the call's input buffer; this is so while
\* the worker holds the unit or the Result, in the result queue and with the caller,
\* and the copy of a Result into the output slice never fails.
C22_ReusedStorageIsFresh ==
    exec = "parallel" =>
        /\ \A w \in Workers :
              /\ wpc[w] = "into" => wjob[w].out_buffer = UnitValues(wjob[w])
              /\ wpc[w] = "push" => wjob[w].buffer = UnitValues(wjob[w])
        /\ \A k \in 1..Len(res_queue) : res_queue[k].buffer = UnitValues(res_queue[k])
        /\ \A k \in 1..Len(results) :
              /\ results[k].buffer = UnitValues(results[k])
              /\ cpc = "copy" => ~copy_panics(OutData, results[k].offset, results[k].count,
                                              results[k].buffer)
        /\ cpc # "panic"

\* A worker has made a Result of 2 values while another unit of the same call waits
\* in the work queue with reused storage of another length, still holding old values.
C22_Witness ==
    /\ exec = "parallel"
    /\ cpc = "gather"
    /\ iter >= 1
    /\ StaleUnits # {}
    /\ \E w \in Workers :
          /\ wpc[w] = "push"
          /\ wjob[w].count = 2
          /\ wjob[w].buffer = UnitValues(wjob[w])

====
